---------------------------- MODULE Spec2Model ----------------------------
(***************************************************************************)
(* Model of the highlight detection engine of TikTok_Videos                *)
(* (src/pipeline/highlight_detector.py), specification Spec, and of the    *)
(* bot process around it (src/bot.py, src/config.py, the model cache of    *)
(* src/pipeline/transcriber.py and the job directory of                    *)
(* src/utils/file_utils.py), specification BotSpec, and BotFairSpec for    *)
(* progress.                                                               *)
(*                                                                         *)
(* Times are whole seconds.  Scores are exact rationals [n, d] with d > 0. *)
(* RMS values are whole multiples of an arbitrary unit.  A word's text and *)
(* a chapter's title are sequences of one-character strings.               *)
(***************************************************************************)
EXTENDS Integers, Sequences, FiniteSets, TLC

VARIABLES
    words,            \* find_highlights argument: list of WordSegment
    chapters,         \* find_highlights argument: list of chapter dicts
    config,           \* find_highlights argument: Config
    audio,            \* RMS curve the audio file at audio_path holds
    video,            \* scene cut timestamps the video file at video_path holds
    pc,               \* position inside find_highlights
    energy,           \* (times, rms) returned by compute_audio_energy
    scene_changes,    \* list returned by detect_scene_changes
    keyword_regions,  \* list returned by score_transcript_keywords
    video_duration,   \* local of find_highlights
    candidates,       \* pool returned by _score_windows
    selected,         \* list returned by _select_top_clips
    result,           \* list returned by find_highlights
    env,              \* the process environment read by load_config
    app,              \* position of main(): "starting", "polling", "ValueError"
    bot_data,         \* context.application.bot_data
    user_data,        \* context.user_data of the user who talks to the bot
    last_reply,       \* the last reply of a /set_* command handler
    updates,          \* the commands and videos the user has yet to send
    _whisper_model,   \* the module global of pipeline/transcriber.py
    constructed,      \* WhisperModel instances constructed so far
    jobs,             \* the invocations of handle_url / handle_video_upload
    temp_dirs,        \* the job directories under Config.temp_dir, by job
    sent_clips        \* the clips delivered with reply_video, by job

\* The state of one find_highlights run.
hvars == <<words, chapters, config, audio, video, pc, energy, scene_changes,
           keyword_regions, video_duration, candidates, selected, result>>

\* The state of the bot process.
bvars == <<env, app, bot_data, user_data, last_reply, updates, _whisper_model,
           constructed, jobs, temp_dirs, sent_clips>>

vars == <<hvars, bvars>>

-----------------------------------------------------------------------------
(* Bounds of the explored inputs *)

MaxWords == 2
MaxTime == 12
MaxClips == 2
MaxChapters == 3
MaxCommands == 2
MaxJobs == 3
MaxDelivered == 2
MaxFairJobs == 2

-----------------------------------------------------------------------------
(* Program constants *)

WindowStep == 5
SnapTolerance == 2
DefaultDuration == 120
ContextBefore == 5
ContextAfter == 10
TitlePrefix == 40
KeywordScale == 3
SceneSaturation == 2
DefaultMaxClips == 3
DefaultClipMin == 15
DefaultClipMax == 60
ClipsLow == 1
ClipsHigh == 5
ClipMinLow == 10
ClipMinHigh == 30
ClipMaxLow == 30
ClipMaxHigh == 60

-----------------------------------------------------------------------------
(* Exact arithmetic *)

Abs(x) == IF x < 0 THEN -x ELSE x

Min2(a, b) == IF a <= b THEN a ELSE b

Max2(a, b) == IF a >= b THEN a ELSE b

RECURSIVE Gcd(_, _)
Gcd(a, b) == IF b = 0 THEN a ELSE Gcd(b, a % b)

Rat(n, d) ==
    IF n = 0 THEN [n |-> 0, d |-> 1]
    ELSE LET g == Gcd(Abs(n), d) IN [n |-> n \div g, d |-> d \div g]

RZero == [n |-> 0, d |-> 1]

ROne == [n |-> 1, d |-> 1]

RAdd(a, b) == Rat(a.n * b.d + b.n * a.d, a.d * b.d)

RMul(a, b) == Rat(a.n * b.n, a.d * b.d)

RLt(a, b) == a.n * b.d < b.n * a.d

RLe(a, b) == a.n * b.d <= b.n * a.d

RMax(a, b) == IF RLt(a, b) THEN b ELSE a

RMin(a, b) == IF RLt(b, a) THEN b ELSE a


-----------------------------------------------------------------------------
(* Sequence helpers *)

Range(s) == {s[i] : i \in 1..Len(s)}

Take(s, n) == SubSeq(s, 1, Min2(n, Len(s)))

\* The folds below split their range in halves, which keeps the evaluation
\* shallow on long lists; the elements are still visited in list order.
RECURSIVE SumBetween(_, _, _)
SumBetween(s, lo, hi) ==
    IF lo > hi THEN 0
    ELSE IF lo = hi THEN s[lo]
    ELSE LET mid == (lo + hi) \div 2
         IN  SumBetween(s, lo, mid) + SumBetween(s, mid + 1, hi)

SumSeq(s) == SumBetween(s, 1, Len(s))

-----------------------------------------------------------------------------
(* Text: str.lower() and str.strip(chars) on sequences of characters *)

Punctuation == {".", ",", "!", "?", ";", ":", "\"", "'"}

Whitespace == {" ", "\t", "\n"}

LowerChar(c) ==
    CASE c = "W" -> "w"
      [] c = "O" -> "o"
      [] c = "A" -> "a"
      [] c = "I" -> "i"
      [] c = "T" -> "t"
      [] c = "N" -> "n"
      [] c = "Y" -> "y"
      [] c = "H" -> "h"
      [] c = "E" -> "e"
      [] OTHER -> c

Lower(s) == [i \in 1..Len(s) |-> LowerChar(s[i])]

RECURSIVE LStrip(_, _)
LStrip(s, chars) ==
    IF s # <<>> /\ Head(s) \in chars THEN LStrip(Tail(s), chars) ELSE s

RECURSIVE RStrip(_, _)
RStrip(s, chars) ==
    IF s # <<>> /\ s[Len(s)] \in chars
    THEN RStrip(SubSeq(s, 1, Len(s) - 1), chars)
    ELSE s

Strip(s, chars) == RStrip(LStrip(s, chars), chars)

KeywordSet(keywords) == {Strip(Lower(k), Whitespace) : k \in Range(keywords)}

IsKeywordWord(w, keyword_set) == Strip(Lower(w.word), Punctuation) \in keyword_set

-----------------------------------------------------------------------------
(* score_transcript_keywords *)

KeywordHit(ws, i, keyword_set) ==
    LET ctx_start == Max2(0, (i - 1) - ContextBefore)
        ctx_end == Min2(Len(ws) - 1, (i - 1) + ContextAfter)
        window_words == SubSeq(ws, ctx_start + 1, ctx_end)
        kw_count == Cardinality({j \in 1..Len(window_words) :
                                    IsKeywordWord(window_words[j], keyword_set)})
    IN  IF window_words = <<>> THEN <<>>
        ELSE << [ks |-> window_words[1].start,
                 ke |-> window_words[Len(window_words)].end,
                 kd |-> Rat(kw_count, Len(window_words))] >>

\* The hits of the words lo..hi, in word order.
RECURSIVE KeywordHitsBetween(_, _, _, _)
KeywordHitsBetween(ws, lo, hi, keyword_set) ==
    IF lo > hi THEN <<>>
    ELSE IF lo = hi
    THEN (IF IsKeywordWord(ws[lo], keyword_set)
          THEN KeywordHit(ws, lo, keyword_set) ELSE <<>>)
    ELSE LET mid == (lo + hi) \div 2
         IN  KeywordHitsBetween(ws, lo, mid, keyword_set)
             \o KeywordHitsBetween(ws, mid + 1, hi, keyword_set)

score_transcript_keywords(ws, keywords) ==
    IF ws = <<>> THEN <<>>
    ELSE KeywordHitsBetween(ws, 1, Len(ws), KeywordSet(keywords))

-----------------------------------------------------------------------------
(* _score_windows *)

NaN == [n |-> 0, d |-> 0]

RDiv(n, d) == IF d = 0 THEN NaN ELSE Rat(n, d)

RmsValues(e) == {e[i].rms : i \in 1..Len(e)}

MaxRms(e) == CHOOSE m \in RmsValues(e) : \A r \in RmsValues(e) : r <= m

MinRms(e) == CHOOSE m \in RmsValues(e) : \A r \in RmsValues(e) : m <= r

GlobalMaxRms(e) == IF Len(e) > 0 THEN MaxRms(e) ELSE 1

GlobalMinRms(e) == IF Len(e) > 0 THEN MinRms(e) ELSE 0

\* Mutant: the `or 1.0` guard is missing.
RmsRange_Unguarded(e) == GlobalMaxRms(e) - GlobalMinRms(e)

\* `global_max_rms - global_min_rms or 1.0`
RmsRange(e) ==
    IF GlobalMaxRms(e) - GlobalMinRms(e) # 0
    THEN GlobalMaxRms(e) - GlobalMinRms(e) ELSE 1

\* Mutant: global_min_rms is not subtracted.
NormalisedMean_NotShifted(window_rms, global_min_rms, rms_range) ==
    RDiv(SumSeq([i \in 1..Len(window_rms) |-> window_rms[i].rms]),
         Len(window_rms) * rms_range)

\* mean((window_rms - global_min_rms) / rms_range)
NormalisedMean(window_rms, global_min_rms, rms_range) ==
    RDiv(SumSeq([i \in 1..Len(window_rms) |-> window_rms[i].rms - global_min_rms]),
         Len(window_rms) * rms_range)

\* Mutant: the mean is taken without the two length guards.
EnergyScore_UnguardedMean(e, global_min_rms, rms_range, pos, end) ==
    LET InWindow(x) == x.t >= pos /\ x.t < end
    IN  NormalisedMean(SelectSeq(e, InWindow), global_min_rms, rms_range)

EnergyScore(e, global_min_rms, rms_range, pos, end) ==
    IF Len(e) > 0
    THEN LET InWindow(x) == x.t >= pos /\ x.t < end
         IN  IF Len(SelectSeq(e, InWindow)) > 0
             THEN NormalisedMean(SelectSeq(e, InWindow), global_min_rms, rms_range)
             ELSE RZero
    ELSE RZero

\* Mutant: a keyword window that overlaps the scoring window counts.
RegionCounts_Overlapping(r, pos, end) == r.ks < end /\ r.ke > pos

RegionCounts(r, pos, end) == r.ks >= pos /\ r.ke <= end

\* The loop over keyword_regions[lo..hi], entered with kw_score.
RECURSIVE MaxContainedDensity(_, _, _, _, _, _)
MaxContainedDensity(regions, lo, hi, pos, end, kw_score) ==
    IF lo > hi THEN kw_score
    ELSE IF lo = hi
    THEN (IF RegionCounts(regions[lo], pos, end)
          THEN RMax(kw_score, regions[lo].kd) ELSE kw_score)
    ELSE LET mid == (lo + hi) \div 2
         IN  MaxContainedDensity(regions, mid + 1, hi, pos, end,
                 MaxContainedDensity(regions, lo, mid, pos, end, kw_score))

KeywordScore(regions, pos, end) ==
    RMin(ROne,
         RMul(MaxContainedDensity(regions, 1, Len(regions), pos, end, RZero),
              Rat(KeywordScale, 1)))

\* Mutant: one cut saturates the scene score.
SceneScore_OneCutSaturates(scenes, pos, end) ==
    LET InWindow(t) == pos <= t /\ t < end
    IN  RMin(ROne, Rat(Len(SelectSeq(scenes, InWindow)), 1))

SceneScore(scenes, pos, end) ==
    LET InWindow(t) == pos <= t /\ t < end
        scenes_in_window == SelectSeq(scenes, InWindow)
    IN  RMin(ROne, Rat(Len(scenes_in_window), SceneSaturation))

Combined(cfg, energy_score, kw_score, scene_score) ==
    RAdd(RAdd(RMul(cfg.audio_energy_weight, energy_score),
              RMul(cfg.keyword_weight, kw_score)),
         RMul(cfg.scene_change_weight, scene_score))

EnergyThreshold == Rat(6, 10)

KeywordThreshold == Rat(3, 10)

SceneThreshold == Rat(5, 10)

\* Mutant: a score equal to its threshold earns the tag.
Reason_ThresholdsInclusive(energy_score, kw_score, scene_score) ==
    LET reason_parts ==
            (IF RLe(EnergyThreshold, energy_score) THEN <<"high energy">> ELSE <<>>)
            \o (IF RLe(KeywordThreshold, kw_score) THEN <<"keyword">> ELSE <<>>)
            \o (IF RLe(SceneThreshold, scene_score) THEN <<"scene change">> ELSE <<>>)
    IN  IF reason_parts # <<>> THEN reason_parts ELSE <<"multi-signal">>

Reason(energy_score, kw_score, scene_score) ==
    LET reason_parts ==
            (IF RLt(EnergyThreshold, energy_score) THEN <<"high energy">> ELSE <<>>)
            \o (IF RLt(KeywordThreshold, kw_score) THEN <<"keyword">> ELSE <<>>)
            \o (IF RLt(SceneThreshold, scene_score) THEN <<"scene change">> ELSE <<>>)
    IN  IF reason_parts # <<>> THEN reason_parts ELSE <<"multi-signal">>

\* One iteration of the while loop: the candidate and the three signal scores.
ScoredWindow(pos, end, cfg, energy_score, kw_score, scene_score) ==
    [start |-> pos, end |-> end,
     score |-> Combined(cfg, energy_score, kw_score, scene_score),
     reason |-> Reason(energy_score, kw_score, scene_score),
     energy_score |-> energy_score,
     kw_score |-> kw_score,
     scene_score |-> scene_score]

\* `stats` holds the precomputed global_min_rms and rms_range.
ScoreWindow(pos, end, e, stats, regions, scenes, cfg) ==
    ScoredWindow(pos, end, cfg,
                 EnergyScore(e, stats.global_min_rms, stats.rms_range, pos, end),
                 KeywordScore(regions, pos, end),
                 SceneScore(scenes, pos, end))

\* Mutant: a window that ends exactly at the duration does not fit.
WindowFits_Strict(pos, window_size, duration) == pos + window_size < duration

WindowFits(pos, window_size, duration) == pos + window_size <= duration

RECURSIVE SlideWindow(_, _, _, _, _, _, _, _)
SlideWindow(pos, window_size, duration, e, stats, regions, scenes, cfg) ==
    IF WindowFits(pos, window_size, duration)
    THEN <<ScoreWindow(pos, pos + window_size, e, stats, regions, scenes, cfg)>>
         \o SlideWindow(pos + WindowStep, window_size, duration, e, stats,
                        regions, scenes, cfg)
    ELSE <<>>

GlobalStats(e) == [global_min_rms |-> GlobalMinRms(e), rms_range |-> RmsRange(e)]

\* Mutant: windows that score nothing are dropped from the pool.
ScanAllSizes_PrunesUnscored(sizes, duration, e, stats, regions, scenes, cfg) ==
    LET Scores(w) == RLt(RZero, w.score)
    IN  SelectSeq(SlideWindow(0, sizes[1], duration, e, stats, regions, scenes, cfg)
                  \o SlideWindow(0, sizes[2], duration, e, stats, regions, scenes, cfg)
                  \o SlideWindow(0, sizes[3], duration, e, stats, regions, scenes, cfg),
                  Scores)

ScanAllSizes(sizes, duration, e, stats, regions, scenes, cfg) ==
    SlideWindow(0, sizes[1], duration, e, stats, regions, scenes, cfg)
    \o SlideWindow(0, sizes[2], duration, e, stats, regions, scenes, cfg)
    \o SlideWindow(0, sizes[3], duration, e, stats, regions, scenes, cfg)

\* Mutant: the midpoint is rounded up.
WindowSizes_MidpointRoundedUp(min_dur, max_dur) ==
    <<min_dur, (min_dur + max_dur + 1) \div 2, max_dur>>

WindowSizes(min_dur, max_dur) ==
    <<min_dur, (min_dur + max_dur) \div 2, max_dur>>

\* The scored windows in generation order, each with its signal scores.
ScoredWindows(duration, regions, scenes, e, min_dur, max_dur, cfg) ==
    ScanAllSizes(WindowSizes(min_dur, max_dur), duration, e, GlobalStats(e),
                 regions, scenes, cfg)

ClipCandidate(start, end, score, reason) ==
    [start |-> start, end |-> end, score |-> score, reason |-> reason]

AsCandidate(w) == ClipCandidate(w.start, w.end, w.score, w.reason)

-----------------------------------------------------------------------------
(* _select_top_clips *)

Duration(c) == c.end - c.start

InDurationBounds(c, min_dur, max_dur) ==
    min_dur <= Duration(c) /\ Duration(c) <= max_dur

\* Mutant: the sort is ascending.
SortsBefore_Ascending(a, b) == RLt(a, b)

\* The sort key comparison of list.sort(key=score, reverse=True): does key a
\* go strictly before key b?
SortsBefore(a, b) == RLt(b, a)

\* The distinct sort keys, in sorted order.
SortedKeys(keys) ==
    [k \in 1..Cardinality(keys) |->
        CHOOSE v \in keys :
            Cardinality({u \in keys : SortsBefore(u, v)}) = k - 1]

\* The elements with the keys order[lo..hi]; list.sort is stable, so the
\* elements with equal keys keep their order in s.
RECURSIVE GroupsBetween(_, _, _, _)
GroupsBetween(s, order, lo, hi) ==
    IF lo > hi THEN <<>>
    ELSE IF lo = hi
    THEN LET HasKey(c) == c.score = order[lo] IN SelectSeq(s, HasKey)
    ELSE LET mid == (lo + hi) \div 2
         IN  GroupsBetween(s, order, lo, mid)
             \o GroupsBetween(s, order, mid + 1, hi)

\* Mutant: equal keys come out in reverse input order.
SortByKeys_ReversedTies(s, order) ==
    GroupsBetween([i \in 1..Len(s) |-> s[Len(s) + 1 - i]], order, 1, Len(order))

SortByKeys(s, order) == GroupsBetween(s, order, 1, Len(order))

\* Mutant: the sort is left out.
SortByScore_Unsorted(s) == s

SortByScore(s) ==
    SortByKeys(s, SortedKeys({s[i].score : i \in 1..Len(s)}))

\* Mutant: the overlap is measured against the accepted clip's duration.
Overlaps_AgainstIncumbent(candidate, sel) ==
    LET overlap_start == Max2(candidate.start, sel.start)
        overlap_end == Min2(candidate.end, sel.end)
    IN  /\ overlap_end > overlap_start
        /\ 2 * (overlap_end - overlap_start) > sel.end - sel.start

\* The body of the inner loop: does `candidate` overlap `sel` too much?
Overlaps(candidate, sel) ==
    LET overlap_start == Max2(candidate.start, sel.start)
        overlap_end == Min2(candidate.end, sel.end)
    IN  /\ overlap_end > overlap_start
        /\ 2 * (overlap_end - overlap_start) > Duration(candidate)

\* Mutant: the loop breaks one accepted clip too late.
Full_OffByOne(sel, max_clips) == Len(sel) > max_clips

Full(sel, max_clips) == Len(sel) >= max_clips

\* The body of the outer loop.  st.selected is the list built so far and
\* st.stopped tells that the loop has hit its break.
GreedyStep(st, candidate, max_clips) ==
    LET overlaps == \E i \in 1..Len(st.selected) :
                        Overlaps(candidate, st.selected[i])
        sel == IF ~overlaps THEN Append(st.selected, candidate)
               ELSE st.selected
    IN  [selected |-> sel, stopped |-> Full(sel, max_clips)]

\* The outer loop over valid[lo..hi], entered in state st.
RECURSIVE GreedyWalk(_, _, _, _, _)
GreedyWalk(valid, lo, hi, st, max_clips) ==
    IF st.stopped \/ lo > hi THEN st
    ELSE IF lo = hi THEN GreedyStep(st, valid[lo], max_clips)
    ELSE LET mid == (lo + hi) \div 2
         IN  GreedyWalk(valid, mid + 1, hi,
                        GreedyWalk(valid, lo, mid, st, max_clips), max_clips)

SelectFrom(valid, max_clips) ==
    GreedyWalk(valid, 1, Len(valid), [selected |-> <<>>, stopped |-> FALSE],
               max_clips).selected

_select_top_clips(cands, max_clips, min_dur, max_dur) ==
    LET Valid(c) == InDurationBounds(c, min_dur, max_dur)
    IN  SelectFrom(SortByScore(SelectSeq(cands, Valid)), max_clips)

-----------------------------------------------------------------------------
(* _refine_boundaries *)

Infinity == 1000000

WithinTolerance(diff) == diff <= SnapTolerance

\* The body of one of the two loops over the words.  `st.value` is the local
\* start (or end), overwritten whenever a word's edge beats st.best_diff; the
\* diff is taken against the current value of that local.
SnapStep(st, word, edge) ==
    LET diff == Abs(word[edge] - st.value)
    IN  IF diff < st.best_diff /\ WithinTolerance(diff)
        THEN [value |-> word[edge], best_diff |-> diff]
        ELSE st

\* The loop over words[lo..hi], entered in state st.  No diff is below 0, so
\* a state with best_diff = 0 is the state the loop ends in.
RECURSIVE SnapLoop(_, _, _, _, _)
SnapLoop(ws, lo, hi, edge, st) ==
    IF st.best_diff = 0 \/ lo > hi THEN st
    ELSE IF lo = hi THEN SnapStep(st, ws[lo], edge)
    ELSE LET mid == (lo + hi) \div 2
         IN  SnapLoop(ws, mid + 1, hi, edge, SnapLoop(ws, lo, mid, edge, st))

SnapScan(ws, edge, value) ==
    SnapLoop(ws, 1, Len(ws), edge, [value |-> value, best_diff |-> Infinity]).value

\* Mutant: a short clip is not extended to min_dur.
ClampEnd_NoMinimum(start, end, min_dur, max_dur) ==
    IF end - start > max_dur THEN start + max_dur ELSE end

\* Mutant: a short clip is extended to max_dur.
ClampEnd_ExtendsToMaximum(start, end, min_dur, max_dur) ==
    IF end - start < min_dur THEN start + max_dur
    ELSE IF end - start > max_dur THEN start + max_dur
    ELSE end

ClampEnd(start, end, min_dur, max_dur) ==
    IF end - start < min_dur THEN start + min_dur
    ELSE IF end - start > max_dur THEN start + max_dur
    ELSE end

\* Mutant: the refined candidate is labelled afresh.
_refine_boundaries_Relabelled(clip, ws, min_dur, max_dur) ==
    IF ws = <<>> THEN clip
    ELSE LET start == SnapScan(ws, "start", clip.start)
             end == SnapScan(ws, "end", clip.end)
         IN  ClipCandidate(start, ClampEnd(start, end, min_dur, max_dur),
                           clip.score, <<"multi-signal">>)

_refine_boundaries(clip, ws, min_dur, max_dur) ==
    IF ws = <<>> THEN clip
    ELSE LET start == SnapScan(ws, "start", clip.start)
             end == SnapScan(ws, "end", clip.end)
         IN  ClipCandidate(start, ClampEnd(start, end, min_dur, max_dur),
                           clip.score, clip.reason)

-----------------------------------------------------------------------------
(* find_highlights: the chapter fast path *)

ChapterDuration(ch) == ch.end_time - ch.start_time

\* Mutant: a chapter of exactly min_dur does not fit.
ChapterFits_StrictMinimum(ch, min_dur, max_dur) ==
    min_dur < ChapterDuration(ch) /\ ChapterDuration(ch) <= max_dur

ChapterFits(ch, min_dur, max_dur) ==
    min_dur <= ChapterDuration(ch) /\ ChapterDuration(ch) <= max_dur

ChapterClip(ch) ==
    ClipCandidate(ch.start_time, ch.end_time, ROne,
                  <<"Chapter: ", Take(ch.title, TitlePrefix)>>)

ChapterClips(chs, min_dur, max_dur) ==
    LET Fits(ch) == ChapterFits(ch, min_dur, max_dur)
        fitting == SelectSeq(chs, Fits)
    IN  [i \in 1..Len(fitting) |-> ChapterClip(fitting[i])]

\* Mutant: one fitting chapter is enough to return from the fast path.
UseChapters_AnyFitting(chs, chapter_clips, max_clips) ==
    chs # <<>> /\ Len(chapter_clips) >= 1

UseChapters(chs, chapter_clips, max_clips) ==
    chs # <<>> /\ Len(chapter_clips) >= max_clips

\* Mutant: no default duration without words.
VideoDuration_NoDefault(ws) == IF ws # <<>> THEN ws[Len(ws)].end ELSE 0

VideoDuration(ws) == IF ws # <<>> THEN ws[Len(ws)].end ELSE DefaultDuration

-----------------------------------------------------------------------------
(* Inputs *)

WordSegment(text, start, end) == [word |-> text, start |-> start, end |-> end]

Chapter(title, start_time, end_time) ==
    [title |-> title, start_time |-> start_time, end_time |-> end_time]

PlainText == <<"t", "h", "e">>

ShoutedKeyword == <<"W", "o", "w", "!">>

Vocabulary == {PlainText, ShoutedKeyword}

\* A few of Config.tiktok_keywords.
TikTokKeywords ==
    << <<"w", "a", "i", "t">>, <<"w", "o", "w">>,
       <<"n", "o", " ", "w", "a", "y">> >>

DefaultWeights ==
    [audio_energy_weight |-> Rat(4, 10), keyword_weight |-> Rat(3, 10),
     scene_change_weight |-> Rat(3, 10)]

Config(min_dur, max_dur, max_clips) ==
    [clip_min_duration |-> min_dur, clip_max_duration |-> max_dur,
     max_clips_per_video |-> max_clips,
     audio_energy_weight |-> DefaultWeights.audio_energy_weight,
     keyword_weight |-> DefaultWeights.keyword_weight,
     scene_change_weight |-> DefaultWeights.scene_change_weight,
     tiktok_keywords |-> TikTokKeywords]

\* Valid duration bounds: 0 < min <= max.
DurationBounds == {<<5, 10>>, <<10, 10>>, <<15, 30>>, <<125, 130>>}

Configs ==
    {Config(b[1], b[2], n) : b \in DurationBounds, n \in 1..MaxClips}

WordLengths == {1, 2}

\* Transcripts of at most k words that start at t0 or later: ordered by start,
\* not overlapping, gaps allowed.
RECURSIVE TranscriptsFrom(_, _)
TranscriptsFrom(t0, k) ==
    IF k = 0 THEN {<<>>}
    ELSE {<<>>} \cup
         UNION {{<<WordSegment(PlainText, p[1], p[1] + p[2])>> \o rest :
                    rest \in TranscriptsFrom(p[1] + p[2], k - 1)} :
                p \in {q \in (t0..MaxTime) \X WordLengths : q[1] + q[2] <= MaxTime}}

TimedTranscripts == TranscriptsFrom(0, MaxWords)

\* Contiguous words of the given lengths, starting at t0, texts from `texts`.
RECURSIVE Contiguous(_, _, _)
Contiguous(t0, lengths, texts) ==
    IF lengths = <<>> THEN <<>>
    ELSE <<WordSegment(Head(texts), t0, t0 + Head(lengths))>>
         \o Contiguous(t0 + Head(lengths), Tail(lengths), Tail(texts))

SpokenLengths == <<3, 5, 4, 2, 3>>

SpokenTexts == [1..Len(SpokenLengths) -> Vocabulary]

SpokenTranscripts == {Contiguous(0, SpokenLengths, texts) : texts \in SpokenTexts}

PlainTranscript ==
    Contiguous(0, SpokenLengths, [i \in 1..Len(SpokenLengths) |-> PlainText])

\* Seventeen one-second words spoken without a pause.
RapidTranscript == [i \in 1..17 |-> WordSegment(PlainText, i - 1, i)]

Curve(times, levels) ==
    [i \in 1..Len(levels) |-> [t |-> times[i], rms |-> levels[i]]]

SampleTimes == <<1, 4, 8, 11, 16>>

AudioCurves ==
    {<<>>,
     Curve(SampleTimes, <<3, 3, 3, 3, 3>>),
     Curve(SampleTimes, <<0, 0, 0, 0, 0>>),
     Curve(SampleTimes, <<1, 9, 1, 1, 1>>),
     Curve(SampleTimes, <<1, 1, 5, 9, 1>>),
     Curve(SampleTimes, <<2, 4, 6, 8, 9>>)}

SceneCuts == {<<>>, <<6>>, <<1, 9>>, <<8, 8, 13>>}

Title(n) == [i \in 1..n |-> "x"]

ChapterPool ==
    {Chapter(Title(2), 0, 5), Chapter(Title(41), 3, 10),
     Chapter(Title(2), 2, 6), Chapter(Title(3), 0, 20),
     Chapter(Title(3), 10, 25)}

RECURSIVE ChapterLists(_)
ChapterLists(k) ==
    IF k = 0 THEN {<<>>}
    ELSE {<<>>} \cup {<<ch>> \o rest : ch \in ChapterPool, rest \in ChapterLists(k - 1)}

Input(ws, chs, cfg, rms_curve, cuts) ==
    [words |-> ws, chapters |-> chs, config |-> cfg, audio |-> rms_curve,
     video |-> cuts]

\* Many word timings, silent static video.
TimingInputs ==
    {Input(ws, <<>>, cfg, <<>>, <<>>) : ws \in TimedTranscripts, cfg \in Configs}

\* Few transcripts, many signals.
SignalInputs ==
    {Input(ws, <<>>, cfg, a, v) :
        ws \in {<<>>, PlainTranscript, RapidTranscript}, cfg \in Configs,
        a \in AudioCurves, v \in SceneCuts}

\* Keyword placement.
KeywordInputs ==
    {Input(ws, <<>>, cfg, <<>>, v) :
        ws \in SpokenTranscripts, cfg \in Configs, v \in {<<>>, <<6>>}}

\* Chapter lists.
ChapterInputs ==
    {Input(PlainTranscript, chs, cfg, <<>>, <<>>) :
        chs \in ChapterLists(MaxChapters), cfg \in Configs}

\* The 120 s video of the end-to-end scenario: words of `pace` seconds from 0
\* to 118 s, keywords spoken from 40 to 46 s, loud from 41 to 46 s, one cut.
ScenarioTranscript(pace) ==
    [i \in 1..(118 \div pace) |->
        WordSegment(IF 40 <= pace * (i - 1) /\ pace * (i - 1) < 46
                    THEN ShoutedKeyword ELSE PlainText,
                    pace * (i - 1), pace * i)]

ScenarioTranscripts == {ScenarioTranscript(1), ScenarioTranscript(2)}

ScenarioCurve ==
    [i \in 1..120 |->
        [t |-> i - 1, rms |-> IF 41 <= i - 1 /\ i - 1 < 46 THEN 5 ELSE 1]]

ScenarioCuts == <<42>>

ScenarioConfig == Config(15, 30, 1)

ScenarioInputs ==
    {Input(ws, <<>>, ScenarioConfig, ScenarioCurve, ScenarioCuts) :
        ws \in ScenarioTranscripts}

\* Weights other than the defaults: all zero, and not summing to 1.
Weightings ==
    {[audio_energy_weight |-> RZero, keyword_weight |-> RZero,
      scene_change_weight |-> RZero],
     [audio_energy_weight |-> Rat(2, 1), keyword_weight |-> ROne,
      scene_change_weight |-> Rat(1, 2)],
     [audio_energy_weight |-> RZero, keyword_weight |-> Rat(3, 10),
      scene_change_weight |-> ROne]}

WeightedConfig(cfg, w) ==
    [cfg EXCEPT !.audio_energy_weight = w.audio_energy_weight,
                !.keyword_weight = w.keyword_weight,
                !.scene_change_weight = w.scene_change_weight]

\* A keyword in the second word.
KeywordTranscript ==
    Contiguous(0, SpokenLengths,
               [i \in 1..Len(SpokenLengths) |->
                   IF i = 2 THEN ShoutedKeyword ELSE PlainText])

WeightInputs ==
    {Input(KeywordTranscript, <<>>, WeightedConfig(Config(b[1], b[2], MaxClips), w),
           a, v) :
        b \in {<<5, 10>>, <<15, 30>>}, w \in Weightings, a \in AudioCurves,
        v \in SceneCuts}

Inputs ==
    TimingInputs \cup SignalInputs \cup KeywordInputs \cup ChapterInputs
    \cup ScenarioInputs \cup WeightInputs

-----------------------------------------------------------------------------
(* find_highlights *)

\* No bot process: find_highlights is run on its own.
NoBot ==
    /\ env = <<>>
    /\ app = "off"
    /\ bot_data = <<>>
    /\ user_data = <<>>
    /\ last_reply = <<>>
    /\ updates = <<>>
    /\ _whisper_model = <<>>
    /\ constructed = 0
    /\ jobs = <<>>
    /\ temp_dirs = <<>>
    /\ sent_clips = <<>>

Init ==
    /\ NoBot
    /\ \E input \in Inputs :
          /\ words = input.words
          /\ chapters = input.chapters
          /\ config = input.config
          /\ audio = input.audio
          /\ video = input.video
    /\ pc = "chapters"
    /\ energy = <<>>
    /\ scene_changes = <<>>
    /\ keyword_regions = <<>>
    /\ video_duration = 0
    /\ candidates = <<>>
    /\ selected = <<>>
    /\ result = <<>>

\* Lines 157-171: return the first max_clips fitting chapters, or fall through.
ChapterFastPath ==
    /\ pc = "chapters"
    /\ LET chapter_clips == ChapterClips(chapters, config.clip_min_duration,
                                         config.clip_max_duration)
       IN  IF UseChapters(chapters, chapter_clips, config.max_clips_per_video)
           THEN /\ result' = Take(chapter_clips, config.max_clips_per_video)
                /\ pc' = "returned_chapters"
           ELSE /\ result' = result
                /\ pc' = "gather"
    /\ UNCHANGED <<words, chapters, config, audio, video, energy, scene_changes,
                   keyword_regions, video_duration, candidates, selected>>
    /\ UNCHANGED bvars

\* Lines 173-180: the adapters.  compute_audio_energy and detect_scene_changes
\* return what the files hold, or nothing when they fail.
GatherSignals ==
    /\ pc = "gather"
    /\ energy' \in {audio, <<>>}
    /\ scene_changes' \in {video, <<>>}
    /\ keyword_regions' = score_transcript_keywords(words, config.tiktok_keywords)
    /\ video_duration' = VideoDuration(words)
    /\ pc' = "score"
    /\ UNCHANGED <<words, chapters, config, audio, video, candidates, selected,
                   result>>
    /\ UNCHANGED bvars

\* Lines 182-196: _score_windows, then raise NoHighlightsError on an empty pool.
ScoreWindows ==
    /\ pc = "score"
    /\ candidates' = ScoredWindows(video_duration, keyword_regions, scene_changes,
                                   energy, config.clip_min_duration,
                                   config.clip_max_duration, config)
    /\ pc' = IF candidates' = <<>> THEN "NoHighlightsError" ELSE "select"
    /\ UNCHANGED <<words, chapters, config, audio, video, energy, scene_changes,
                   keyword_regions, video_duration, selected, result>>
    /\ UNCHANGED bvars

\* Line 199.
SelectTopClips ==
    /\ pc = "select"
    /\ selected' = _select_top_clips(
                       [i \in 1..Len(candidates) |-> AsCandidate(candidates[i])],
                       config.max_clips_per_video, config.clip_min_duration,
                       config.clip_max_duration)
    /\ pc' = "refine"
    /\ UNCHANGED <<words, chapters, config, audio, video, energy, scene_changes,
                   keyword_regions, video_duration, candidates, result>>
    /\ UNCHANGED bvars

\* Lines 200-203.
RefineBoundaries ==
    /\ pc = "refine"
    /\ result' = [i \in 1..Len(selected) |->
                     _refine_boundaries(selected[i], words,
                                        config.clip_min_duration,
                                        config.clip_max_duration)]
    /\ pc' = "returned"
    /\ UNCHANGED <<words, chapters, config, audio, video, energy, scene_changes,
                   keyword_regions, video_duration, candidates, selected>>
    /\ UNCHANGED bvars

Next ==
    \/ ChapterFastPath
    \/ GatherSignals
    \/ ScoreWindows
    \/ SelectTopClips
    \/ RefineBoundaries

Spec == Init /\ [][Next]_vars

-----------------------------------------------------------------------------
(* int(): text to integer *)

Digits == <<"0", "1", "2", "3", "4", "5", "6", "7", "8", "9">>

IsDigit(c) == \E d \in 1..Len(Digits) : Digits[d] = c

DigitValue(c) == (CHOOSE d \in 1..Len(Digits) : Digits[d] = c) - 1

RECURSIVE DigitsValue(_)
DigitsValue(s) ==
    IF s = <<>> THEN 0
    ELSE 10 * DigitsValue(SubSeq(s, 1, Len(s) - 1)) + DigitValue(s[Len(s)])

\* int(text): surrounding whitespace is dropped, one sign is allowed, the rest
\* must be decimal digits; anything else raises ValueError (ok = FALSE).
ParseInt(text) ==
    LET t == Strip(text, Whitespace)
        signed == t # <<>> /\ t[1] \in {"-", "+"}
        body == IF signed THEN Tail(t) ELSE t
        ok == body # <<>> /\ \A i \in 1..Len(body) : IsDigit(body[i])
    IN  [ok |-> ok,
         value |-> IF ~ok THEN 0
                   ELSE IF t[1] = "-" THEN -DigitsValue(body)
                   ELSE DigitsValue(body)]

-----------------------------------------------------------------------------
(* config.py: load_config *)

\* A variable of the environment is unset, <<>>, or set to a text, <<text>>.
Env(token, clips, min_dur, max_dur) ==
    [TELEGRAM_BOT_TOKEN |-> token, MAX_CLIPS_PER_VIDEO |-> clips,
     CLIP_MIN_DURATION |-> min_dur, CLIP_MAX_DURATION |-> max_dur]

\* int(os.getenv(name, default))
IntSetting(e, name, default) ==
    IF e[name] = <<>> THEN [ok |-> TRUE, value |-> default]
    ELSE ParseInt(e[name][1])

load_config(e) ==
    LET token == e.TELEGRAM_BOT_TOKEN
        clips == IntSetting(e, "MAX_CLIPS_PER_VIDEO", DefaultMaxClips)
        min_d == IntSetting(e, "CLIP_MIN_DURATION", DefaultClipMin)
        max_d == IntSetting(e, "CLIP_MAX_DURATION", DefaultClipMax)
    IN  IF token = <<>> \/ token[1] = <<>>
        THEN [raised |-> TRUE, config |-> <<>>]
        ELSE IF ~(clips.ok /\ min_d.ok /\ max_d.ok)
        THEN [raised |-> TRUE, config |-> <<>>]
        ELSE [raised |-> FALSE,
              config |-> <<Config(min_d.value, max_d.value, clips.value)>>]

Token == <<"t", "o", "k", "e", "n">>

Environments ==
    {Env(<<Token>>, <<>>, <<>>, <<>>),
     Env(<<>>, <<>>, <<>>, <<>>),
     Env(<<Token>>, <<>>, << <<"6", "0">> >>, << <<"3", "0">> >>),
     Env(<<Token>>, << <<"2">> >>, << <<"2", "0">> >>, << <<"2", "5">> >>),
     Env(<<Token>>, <<>>, << <<"a", "b", "c">> >>, <<>>)}

-----------------------------------------------------------------------------
(* bot.py: settings *)

\* d[key] = value on a dict
SetItem(d, key, value) ==
    [k \in (DOMAIN d) \cup {key} |-> IF k = key THEN value ELSE d[k]]

_get_user_config(ud, base) ==
    [base EXCEPT
        !.max_clips_per_video =
            IF "max_clips" \in DOMAIN ud THEN ud["max_clips"] ELSE @,
        !.clip_min_duration =
            IF "clip_min" \in DOMAIN ud THEN ud["clip_min"] ELSE @,
        !.clip_max_duration =
            IF "clip_max" \in DOMAIN ud THEN ud["clip_max"] ELSE @]

\* Mutant: the upper end of the range is not checked.
InRange_NoUpperBound(low, n, high) == low <= n

InRange(low, n, high) == low <= n /\ n <= high

\* The body shared by cmd_set_clips, cmd_set_min and cmd_set_max: IndexError
\* on missing arguments and ValueError end in the usage reply.
SetOverride(ud, key, low, high, args) ==
    IF args = <<>> THEN [user_data |-> ud, reply |-> "usage"]
    ELSE LET n == ParseInt(args[1])
         IN  IF ~n.ok THEN [user_data |-> ud, reply |-> "usage"]
             ELSE IF ~InRange(low, n.value, high)
             THEN [user_data |-> ud, reply |-> "usage"]
             ELSE [user_data |-> SetItem(ud, key, n.value), reply |-> "ok"]

cmd_set_clips(ud, args) == SetOverride(ud, "max_clips", ClipsLow, ClipsHigh, args)

\* Mutant: /set_min accepts values up to the top of the /set_max range.
cmd_set_min_UpToMaximum(ud, args) ==
    SetOverride(ud, "clip_min", ClipMinLow, ClipMaxHigh, args)

cmd_set_min(ud, args) == SetOverride(ud, "clip_min", ClipMinLow, ClipMinHigh, args)

cmd_set_max(ud, args) == SetOverride(ud, "clip_max", ClipMaxLow, ClipMaxHigh, args)

\* context.args of the commands the user sends.
CommandArgs ==
    {<<>>, << <<"a", "b", "c">> >>, << <<"-", "1">> >>, << <<"0">> >>,
     << <<"1">> >>, << <<"5">> >>, << <<"6">> >>, << <<"9">> >>,
     << <<"1", "0">> >>, << <<"2", "9">> >>, << <<"3", "0">> >>,
     << <<"3", "1">> >>, << <<"6", "0">> >>, << <<"6", "1">> >>,
     << <<"6", "0">>, <<"1", "0">> >>}

-----------------------------------------------------------------------------
(* transcriber.py: load_whisper_model *)

\* Mutant: the global is assigned before the constructor has succeeded.
load_whisper_model_AssignsFirst(model, instance, succeeds) ==
    IF model = <<>>
    THEN [model |-> <<instance>>, raised |-> ~succeeds,
          built |-> IF succeeds THEN 1 ELSE 0]
    ELSE [model |-> model, raised |-> FALSE, built |-> 0]

\* `model` is the module global, `instance` the WhisperModel the constructor
\* would build and `succeeds` whether it does.
load_whisper_model(model, instance, succeeds) ==
    IF model = <<>>
    THEN IF succeeds
         THEN [model |-> <<instance>>, raised |-> FALSE, built |-> 1]
         ELSE [model |-> model, raised |-> TRUE, built |-> 0]
    ELSE [model |-> model, raised |-> FALSE, built |-> 0]

-----------------------------------------------------------------------------
(* bot.py: main, the command handlers and the two video handlers *)

\* No find_highlights run is looked into.
NoRun ==
    /\ words = <<>>
    /\ chapters = <<>>
    /\ config = <<>>
    /\ audio = <<>>
    /\ video = <<>>
    /\ pc = "off"
    /\ energy = <<>>
    /\ scene_changes = <<>>
    /\ keyword_regions = <<>>
    /\ video_duration = 0
    /\ candidates = <<>>
    /\ selected = <<>>
    /\ result = <<>>

\* What the user sends: commands and one video, or videos only.
UpdateBatches ==
    {[commands |-> MaxCommands, videos |-> 1],
     [commands |-> 0, videos |-> MaxJobs]}

\* The process starts and the user is about to send one of `batches`.
StartWith(batches) ==
    /\ NoRun
    /\ env \in Environments
    /\ app = "starting"
    /\ bot_data = <<>>
    /\ user_data = <<>>
    /\ last_reply = <<>>
    /\ updates \in batches
    /\ _whisper_model = <<>>
    /\ constructed = 0
    /\ jobs = <<>>
    /\ temp_dirs = <<>>
    /\ sent_clips = <<>>

BotInit == StartWith(UpdateBatches)

\* main(): load_config raises, or the configuration is stored and polling
\* starts.
Main ==
    /\ app = "starting"
    /\ LET loaded == load_config(env)
       IN  IF loaded.raised
           THEN app' = "ValueError" /\ bot_data' = bot_data
           ELSE app' = "polling" /\ bot_data' = [config |-> loaded.config[1]]
    /\ UNCHANGED <<env, user_data, last_reply, updates, _whisper_model,
                   constructed, jobs, temp_dirs, sent_clips>>
    /\ UNCHANGED hvars

\* A /set_* command arrives and its handler runs; `handled` is what the
\* handler leaves.
Command(name, handled) ==
    /\ app = "polling"
    /\ updates.commands > 0
    /\ updates' = [updates EXCEPT !.commands = @ - 1]
    /\ user_data' = handled.user_data
    /\ last_reply' = <<name, handled.reply>>
    /\ UNCHANGED <<env, app, bot_data, _whisper_model, constructed, jobs,
                   temp_dirs, sent_clips>>
    /\ UNCHANGED hvars

CmdSetClipsWith(args) == Command("set_clips", cmd_set_clips(user_data, args))

CmdSetMinWith(args) == Command("set_min", cmd_set_min(user_data, args))

CmdSetMaxWith(args) == Command("set_max", cmd_set_max(user_data, args))

CmdSetClips == \E args \in CommandArgs : CmdSetClipsWith(args)

CmdSetMin == \E args \in CommandArgs : CmdSetMinWith(args)

CmdSetMax == \E args \in CommandArgs : CmdSetMaxWith(args)

\* The locals of one handler invocation.
Job(kind, stage, model, effective_config) ==
    [kind |-> kind, pc |-> stage, whisper_model |-> model,
     effective_config |-> effective_config]

\* The handler is over: "sent", "returned" early, "failed" in one of its
\* except clauses, or "error" with an exception it did not catch.
Over == {"sent", "returned", "failed", "error"}

\* The lines of both handlers between reading bot_data["config"] and the
\* first await: the model is looked up or loaded, the settings are merged.
BeginJob(kind, stage, succeeds) ==
    LET load == load_whisper_model(_whisper_model, constructed + 1, succeeds)
        effective_config == _get_user_config(user_data, bot_data["config"])
    IN  IF "whisper_model" \in DOMAIN bot_data
        THEN /\ jobs' = Append(jobs, Job(kind, stage, bot_data["whisper_model"],
                                         <<effective_config>>))
             /\ UNCHANGED <<bot_data, _whisper_model, constructed>>
        ELSE /\ _whisper_model' = load.model
             /\ constructed' = constructed + load.built
             /\ IF load.raised
                THEN /\ bot_data' = bot_data
                     /\ jobs' = Append(jobs, Job(kind, "error", <<>>, <<>>))
                ELSE /\ bot_data' = SetItem(bot_data, "whisper_model", load.model)
                     /\ jobs' = Append(jobs, Job(kind, stage, load.model,
                                                 <<effective_config>>))

HandleUrl ==
    /\ app = "polling"
    /\ updates.videos > 0
    /\ updates' = [updates EXCEPT !.videos = @ - 1]
    /\ \E succeeds \in BOOLEAN : BeginJob("url", "download", succeeds)
    /\ UNCHANGED <<env, app, user_data, last_reply, temp_dirs, sent_clips>>
    /\ UNCHANGED hvars

\* The message holds no video or a file above 20 MB and the handler returns,
\* or the job begins.
HandleVideoUpload ==
    /\ app = "polling"
    /\ updates.videos > 0
    /\ updates' = [updates EXCEPT !.videos = @ - 1]
    /\ \/ /\ jobs' = Append(jobs, Job("upload", "returned", <<>>, <<>>))
          /\ UNCHANGED <<bot_data, _whisper_model, constructed>>
       \/ \E succeeds \in BOOLEAN : BeginJob("upload", "receive", succeeds)
    /\ UNCHANGED <<env, app, user_data, last_reply, temp_dirs, sent_clips>>
    /\ UNCHANGED hvars

\* file_utils.temp_working_dir up to the yield: the directory named after a
\* fresh UUID is made.
MakeTempDir(dirs, name) == SetItem(dirs, name, "made")

\* Mutant: no try/finally around the yield; the directory is removed only
\* when the with block is left without an exception.
LeaveTempDir_UnlessRaised(dirs, name, outcome) ==
    IF outcome = "failed" THEN dirs ELSE SetItem(dirs, name, "removed")

\* file_utils.temp_working_dir after the yield: `finally: shutil.rmtree`,
\* whatever way the with block is left.
LeaveTempDir(dirs, name, outcome) == SetItem(dirs, name, "removed")

InTempDir(j) == j \in DOMAIN temp_dirs /\ temp_dirs[j] = "made"

\* Both handlers from the first await to the second: the status message is
\* sent, the with block is entered and the first stage is announced.  The
\* reply raises outside the try block, or mkdir raises inside it, or the
\* directory of job j is made.
EnterTempDir(j) ==
    /\ jobs[j].pc \in {"download", "receive"}
    /\ j \notin DOMAIN temp_dirs
    /\ \/ /\ jobs' = [jobs EXCEPT ![j] = Job(@.kind, "error", <<>>, <<>>)]
          /\ temp_dirs' = temp_dirs
       \/ /\ jobs' = [jobs EXCEPT ![j] = Job(@.kind, "failed", <<>>, <<>>)]
          /\ temp_dirs' = temp_dirs
       \/ /\ jobs' = jobs
          /\ temp_dirs' = MakeTempDir(temp_dirs, j)
    /\ UNCHANGED <<env, app, bot_data, user_data, last_reply, updates,
                   _whisper_model, constructed, sent_clips>>
    /\ UNCHANGED hvars

\* Job j leaves `stage` for `next` inside the with block; leaving the handler
\* leaves the with block, and a handler that is over has no locals.
Advance(j, stage, next) ==
    /\ jobs[j].pc = stage
    /\ InTempDir(j)
    /\ jobs' = [jobs EXCEPT ![j] =
                   IF next \in Over THEN Job(@.kind, next, <<>>, <<>>)
                   ELSE [@ EXCEPT !.pc = next]]
    /\ temp_dirs' = IF next \in Over THEN LeaveTempDir(temp_dirs, j, next)
                    ELSE temp_dirs
    /\ UNCHANGED <<env, app, bot_data, user_data, last_reply, updates,
                   _whisper_model, constructed>>
    /\ UNCHANGED hvars

\* handle_url, stage 1: the arguments of download_video read
\* effective_config.cookies_file, which Config does not have; the
\* AttributeError is caught by `except Exception`.
DownloadVideo(j) == Advance(j, "download", "failed") /\ UNCHANGED sent_clips

\* handle_video_upload, stages 1 to 3: the file is received, its duration
\* checked and its audio extracted.
ReceiveUpload(j) ==
    /\ \E next \in {"transcribe", "returned", "failed"} : Advance(j, "receive", next)
    /\ UNCHANGED sent_clips

TranscribeAudio(j) ==
    /\ \E next \in {"detect", "failed"} : Advance(j, "transcribe", next)
    /\ UNCHANGED sent_clips

\* Mutant: the clips are sent without having been created.
FindHighlights_SkipsClips(j) ==
    /\ \E next \in {"clips", "send", "failed"} : Advance(j, "detect", next)
    /\ UNCHANGED sent_clips

FindHighlights(j) ==
    /\ \E next \in {"clips", "failed"} : Advance(j, "detect", next)
    /\ UNCHANGED sent_clips

ProcessAllClips(j) ==
    /\ \E next \in {"send", "returned", "failed"} : Advance(j, "clips", next)
    /\ UNCHANGED sent_clips

Delivered(j) == IF j \in DOMAIN sent_clips THEN sent_clips[j] ELSE 0

\* One turn of the loop over clips: reply_video raises, or the clip is
\* delivered and either more clips follow or it was the last one.
SendClips(j) ==
    \/ Advance(j, "send", "failed") /\ UNCHANGED sent_clips
    \/ /\ Delivered(j) + 1 < MaxDelivered
       /\ Advance(j, "send", "send")
       /\ sent_clips' = SetItem(sent_clips, j, Delivered(j) + 1)
    \/ /\ Advance(j, "send", "sent")
       /\ sent_clips' = SetItem(sent_clips, j, Delivered(j) + 1)

BotNext ==
    \/ Main
    \/ CmdSetClips
    \/ CmdSetMin
    \/ CmdSetMax
    \/ HandleUrl
    \/ HandleVideoUpload
    \/ \E j \in 1..Len(jobs) : EnterTempDir(j)
    \/ \E j \in 1..Len(jobs) : DownloadVideo(j)
    \/ \E j \in 1..Len(jobs) : ReceiveUpload(j)
    \/ \E j \in 1..Len(jobs) : TranscribeAudio(j)
    \/ \E j \in 1..Len(jobs) : FindHighlights(j)
    \/ \E j \in 1..Len(jobs) : ProcessAllClips(j)
    \/ \E j \in 1..Len(jobs) : SendClips(j)

BotSpec == BotInit /\ [][BotNext]_vars

\* One step of handler invocation j.
JobStep(j) ==
    /\ j \in 1..Len(jobs)
    /\ \/ EnterTempDir(j)
       \/ DownloadVideo(j)
       \/ ReceiveUpload(j)
       \/ TranscribeAudio(j)
       \/ FindHighlights(j)
       \/ ProcessAllClips(j)
       \/ SendClips(j)

\* What the user sends in the runs checked for progress.
FairBatches ==
    {[commands |-> 1, videos |-> 1], [commands |-> 0, videos |-> MaxFairJobs]}

BotFairInit == StartWith(FairBatches)

\* The event loop resumes every handler whose awaited call has come back, and
\* every awaited call comes back or raises.
BotFairSpec ==
    BotFairInit /\ [][BotNext]_vars /\ \A j \in 1..MaxFairJobs : WF_vars(JobStep(j))

-----------------------------------------------------------------------------
(* Properties *)

Returned == pc \in {"returned", "returned_chapters"}

Terminated == pc \in {"returned", "returned_chapters", "NoHighlightsError"}

min_dur == config.clip_min_duration

max_dur == config.clip_max_duration

max_clips == config.max_clips_per_video

OverlapDuration(a, b) ==
    Max2(0, Min2(a.end, b.end) - Max2(a.start, b.start))

SnappedStart(clip) == SnapScan(words, "start", clip.start)

SnappedEnd(clip) == SnapScan(words, "end", clip.end)

\* C1: every returned candidate, from the chapter fast path or from the
\* heuristic path after refinement, lasts at least min and at most max seconds.
C1_DurationWithinBounds ==
    Returned =>
        \A i \in 1..Len(result) :
            min_dur <= Duration(result[i]) /\ Duration(result[i]) <= max_dur

\* A returned clip whose snapped edges were too close, so the clamp extended it.
C1_Witness ==
    /\ pc = "returned"
    /\ words # <<>>
    /\ \E i \in 1..Len(selected) :
          /\ SnappedEnd(selected[i]) - SnappedStart(selected[i]) < min_dur
          /\ Duration(result[i]) = min_dur

C3_CountWithinBounds ==
    /\ Terminated => (Returned \/ pc = "NoHighlightsError")
    /\ Returned => (1 <= Len(result) /\ Len(result) <= max_clips)

\* The selector stopped at max_clips although more candidates were acceptable.
C3_Witness ==
    /\ pc = "returned"
    /\ max_clips >= 2
    /\ Len(result) = max_clips
    /\ \E i \in 1..Len(candidates) :
          \A k \in 1..Len(selected) :
              OverlapDuration(candidates[i], selected[k]) = 0

FittingChapters ==
    {i \in 1..Len(chapters) :
        /\ min_dur <= chapters[i].end_time - chapters[i].start_time
        /\ chapters[i].end_time - chapters[i].start_time <= max_dur}

\* The index of the k-th fitting chapter, in input order.
NthFitting(k) ==
    CHOOSE i \in FittingChapters :
        Cardinality({j \in FittingChapters : j < i}) = k - 1

\* C4: when at least max_clips chapters fit, the run returns the first
\* max_clips of them in input order, each with score 1 and the chapter's
\* start and end.
C4_ChapterFastPath ==
    (pc # "chapters" /\ Cardinality(FittingChapters) >= max_clips) =>
        /\ pc = "returned_chapters"
        /\ Len(result) = max_clips
        /\ \A k \in 1..max_clips :
              /\ result[k].start = chapters[NthFitting(k)].start_time
              /\ result[k].end = chapters[NthFitting(k)].end_time
              /\ result[k].score = ROne

\* The fast path skipped a chapter that does not fit and left out one that does.
C4_Witness ==
    /\ pc = "returned_chapters"
    /\ Cardinality(FittingChapters) > max_clips
    /\ \E i \in 1..Len(chapters) :
          i \notin FittingChapters /\ i < NthFitting(max_clips)

EmptyInput ==
    /\ Terminated
    /\ words = <<>>
    /\ chapters = <<>>
    /\ energy = <<>>
    /\ scene_changes = <<>>

\* C5 as stated: with no words, chapters, energy samples or scene cuts the
\* run raises NoHighlightsError.
C5_EmptyInputRaises == EmptyInput => pc = "NoHighlightsError"

\* C5 amended: with no words, chapters, energy samples or scene cuts the run
\* raises NoHighlightsError only if clip_min_duration exceeds the 120 s default
\* timeline; otherwise it returns between 1 and max_clips windows of that
\* timeline, each with score 0 and the reason "multi-signal".
C5_EmptyInputReturnsZeroScores ==
    EmptyInput =>
        /\ pc = "NoHighlightsError" <=> min_dur > DefaultDuration
        /\ pc # "NoHighlightsError" =>
              /\ pc = "returned"
              /\ 1 <= Len(result) /\ Len(result) <= max_clips
              /\ \A i \in 1..Len(result) :
                    /\ result[i].score = RZero
                    /\ result[i].reason = <<"multi-signal">>
                    /\ 0 <= result[i].start
                    /\ result[i].end <= DefaultDuration

C5_Witness == EmptyInput /\ pc = "returned" /\ Len(result) >= 2

TotalDuration == IF words = <<>> THEN 120 ELSE words[Len(words)].end

NoWindowFits ==
    /\ min_dur > TotalDuration
    /\ (min_dur + max_dur) \div 2 > TotalDuration
    /\ max_dur > TotalDuration

\* C6: the run raises NoHighlightsError exactly when the chapter fast path
\* did not return and no window of any of the three sizes fits in the total
\* duration (the last word's end, or 120 s without words).
C6_RaisesIffPoolEmpty ==
    /\ pc = "NoHighlightsError" =>
          /\ ~(chapters # <<>> /\ Cardinality(FittingChapters) >= max_clips)
          /\ NoWindowFits
    /\ (Terminated /\ pc # "returned_chapters" /\ NoWindowFits) =>
          pc = "NoHighlightsError"

\* A transcript shorter than the smallest window makes the run raise; one
\* second more and it would not.
C6_Witness ==
    /\ pc = "NoHighlightsError"
    /\ words # <<>>
    /\ TotalDuration + 1 = min_dur

\* The end-to-end scenario: the 120 s video, both signals delivered, and the
\* configuration min = 15, max = 30, max_clips = 1.
Scenario ==
    /\ words \in ScenarioTranscripts
    /\ chapters = <<>>
    /\ energy = ScenarioCurve
    /\ scene_changes = ScenarioCuts
    /\ config = ScenarioConfig

ContainsPeak(c) == c.start <= 40 /\ 46 <= c.end

\* C7 as stated: in the end-to-end scenario the single returned candidate
\* contains [40, 46] and its reason has the "keyword" and the "scene change"
\* tag.
C7_ScenarioKeywordAndSceneTags ==
    (Scenario /\ pc = "returned") =>
        /\ Len(result) = 1
        /\ ContainsPeak(result[1])
        /\ "keyword" \in Range(result[1].reason)
        /\ "scene change" \in Range(result[1].reason)

\* C7 amended: in the end-to-end scenario the single returned candidate
\* contains [40, 46] and its reason has the "keyword" tag but not the
\* "scene change" tag: one cut scores 0.5, which does not exceed 0.5.
C7_ScenarioKeywordTagOnly ==
    (Scenario /\ pc = "returned") =>
        /\ Len(result) = 1
        /\ ContainsPeak(result[1])
        /\ "keyword" \in Range(result[1].reason)
        /\ "scene change" \notin Range(result[1].reason)

\* The scenario ran to its end, and the chosen window held the cut.
C7_Witness ==
    /\ Scenario
    /\ pc = "returned"
    /\ \E i \in 1..Len(candidates) :
          /\ AsCandidate(candidates[i]) = selected[1]
          /\ candidates[i].scene_score = Rat(1, 2)

FlatEnergy ==
    /\ energy # <<>>
    /\ \A i, j \in 1..Len(energy) : energy[i].rms = energy[j].rms

\* C8: with no words, no scene cuts and a constant energy curve the RMS range
\* used as divisor is not zero and every generated window has energy score 0.
C8_FlatEnergyScoresZero ==
    (pc \in {"select", "refine", "returned"} /\ words = <<>>
        /\ scene_changes = <<>> /\ FlatEnergy) =>
        /\ RmsRange(energy) # 0
        /\ \A i \in 1..Len(candidates) : candidates[i].energy_score = RZero

\* A constant curve that is not silent, with samples inside a scored window.
C8_Witness ==
    /\ pc = "select"
    /\ words = <<>>
    /\ scene_changes = <<>>
    /\ FlatEnergy
    /\ energy[1].rms > 0
    /\ \E i \in 1..Len(candidates) :
          \E k \in 1..Len(energy) :
              candidates[i].start <= energy[k].t /\ energy[k].t < candidates[i].end

OnWordEdges(c) ==
    /\ \E i \in 1..Len(words) : words[i].start = c.start
    /\ \E i \in 1..Len(words) : words[i].end = c.end

\* C9: refining a returned candidate whose start is some word's start and
\* whose end is some word's end again leaves its start and end unchanged.
C9_RefineIdempotent ==
    pc = "returned" =>
        \A i \in 1..Len(result) :
            OnWordEdges(result[i]) =>
                LET again == _refine_boundaries(result[i], words, min_dur, max_dur)
                IN  again.start = result[i].start /\ again.end = result[i].end

\* Index i of the pool goes before index j in the selector's walk.
WalksBefore(i, j) ==
    \/ RLt(candidates[j].score, candidates[i].score)
    \/ (candidates[i].score = candidates[j].score /\ i < j)

ValidIndices ==
    {i \in 1..Len(candidates) :
        /\ min_dur <= candidates[i].end - candidates[i].start
        /\ candidates[i].end - candidates[i].start <= max_dur}

\* The pool index a selected candidate came from: the first one in the walk
\* that holds it.
PoolIndex(c) ==
    CHOOSE i \in ValidIndices :
        /\ AsCandidate(candidates[i]) = c
        /\ \A j \in ValidIndices :
              AsCandidate(candidates[j]) = c => (j = i \/ WalksBefore(i, j))

AcceptedIndices == {PoolIndex(selected[k]) : k \in 1..Len(selected)}

\* With `accepted` the pool indices of the selected candidates: index i is
\* among them exactly when the reference greedy accepts it.
GreedyAccepts(accepted, i) ==
    LET before == {j \in accepted : WalksBefore(j, i)}
    IN  i \in accepted <=>
            /\ Cardinality(before) < max_clips
            /\ \A j \in before :
                  2 * OverlapDuration(candidates[i], candidates[j])
                      <= candidates[i].end - candidates[i].start

IsGreedySelection(valid, accepted) ==
    /\ Cardinality(accepted) = Len(selected)
    /\ \A i \in valid : GreedyAccepts(accepted, i)

\* C10: _select_top_clips returns the reference greedy selection: among the
\* candidates with a duration in [min, max], walked by descending score, a
\* candidate is accepted exactly when fewer than max_clips were accepted before
\* it and it overlaps each of those by at most half of its own duration; the
\* accepted candidates are returned in the order of the walk.
C10_SelectIsReferenceGreedy ==
    pc = "refine" =>
        /\ \A k \in 1..Len(selected) :
              \E i \in ValidIndices : AsCandidate(candidates[i]) = selected[k]
        /\ \A k \in 1..(Len(selected) - 1) :
              WalksBefore(PoolIndex(selected[k]), PoolIndex(selected[k + 1]))
        /\ IsGreedySelection(ValidIndices, AcceptedIndices)

\* The walk passed over a higher-scored window that overlapped too much and
\* accepted a longer window that overlaps an accepted one within its tolerance.
C10_Witness ==
    /\ pc = "refine"
    /\ Len(selected) >= 2
    /\ \E i \in ValidIndices \ AcceptedIndices :
          WalksBefore(i, PoolIndex(selected[2]))
    /\ OverlapDuration(selected[1], selected[2]) > 0
    /\ Duration(selected[2]) > Duration(selected[1])

Scored == pc \in {"select", "refine", "returned"}

\* C11: candidates with equal scores are walked in pool generation order: a
\* valid pool candidate generated before a selected one of the same score was
\* either selected before it or rejected for overlapping an earlier selection.
C11_TiesInGenerationOrder ==
    pc = "refine" =>
        \A k \in 1..Len(selected) :
            \A i \in ValidIndices :
                (candidates[i].score = selected[k].score
                    /\ i < PoolIndex(selected[k])) =>
                    \/ \E m \in 1..(k - 1) :
                          selected[m] = AsCandidate(candidates[i])
                    \/ \E m \in 1..(k - 1) :
                          2 * OverlapDuration(candidates[i], selected[m])
                              > candidates[i].end - candidates[i].start

\* Two selected windows of equal score, the shorter and earlier generated one
\* first, while a longer window of the same score starts where the first does.
C11_Witness ==
    /\ pc = "refine"
    /\ Len(selected) >= 2
    /\ selected[1].score = selected[2].score
    /\ PoolIndex(selected[1]) < PoolIndex(selected[2])
    /\ \E i \in ValidIndices :
          /\ candidates[i].score = selected[1].score
          /\ candidates[i].start = selected[1].start
          /\ candidates[i].end > selected[1].end

\* The number of windows of one size that fit in the video duration.
WindowCount(size) ==
    IF size <= video_duration
    THEN (video_duration - size) \div WindowStep + 1 ELSE 0

\* C12 as stated: every pool candidate lasts min, the exact midpoint
\* (min + max) / 2, or max seconds.
C12_ExactMidpoint ==
    Scored =>
        \A i \in 1..Len(candidates) :
            \/ Duration(candidates[i]) = min_dur
            \/ 2 * Duration(candidates[i]) = min_dur + max_dur
            \/ Duration(candidates[i]) = max_dur

\* C12 amended: the pool is the windows of size min, then those of size
\* floor((min + max) / 2), then those of size max, and nothing else.
C12_ThreeSizesInOrder ==
    (Scored \/ pc = "NoHighlightsError") =>
        LET mid == (min_dur + max_dur) \div 2
            n1 == WindowCount(min_dur)
            n2 == WindowCount(mid)
            n3 == WindowCount(max_dur)
        IN  /\ Len(candidates) = n1 + n2 + n3
            /\ \A i \in 1..Len(candidates) :
                  Duration(candidates[i]) =
                      IF i <= n1 THEN min_dur
                      ELSE IF i <= n1 + n2 THEN mid ELSE max_dur

\* All three sizes fit, and the midpoint is not a whole number of seconds.
C12_Witness ==
    /\ pc = "select"
    /\ (min_dur + max_dur) % 2 = 1
    /\ WindowCount(min_dur) > WindowCount(max_dur)
    /\ WindowCount(max_dur) > 0

Gathered == pc \in {"score", "select", "refine", "returned", "NoHighlightsError"}

MatchingWords ==
    {i \in 1..Len(words) :
        IsKeywordWord(words[i], KeywordSet(config.tiktok_keywords))}

\* The index of the k-th matching word.
NthMatch(k) ==
    CHOOSE i \in MatchingWords :
        Cardinality({j \in MatchingWords : j < i}) = k - 1

\* The window around word i: from the word 5 positions before to the word 10
\* positions after, clamped to the first and the last word.
ContextWindow(i) ==
    LET first == Max2(1, i - 5)
        last == Min2(Len(words), i + 10)
    IN  [ks |-> words[first].start,
         ke |-> words[last].end,
         kd |-> Rat(Cardinality(MatchingWords \cap (first..last)),
                    last - first + 1)]

\* C13: score_transcript_keywords emits, in word order, one window for every
\* matching word: the words from 5 before to 10 after it, clamped to the
\* transcript, with the first word's start, the last word's end and the share
\* of matching words as density.
C13_KeywordWindows ==
    Gathered =>
        /\ Len(keyword_regions) = Cardinality(MatchingWords)
        /\ \A k \in 1..Len(keyword_regions) :
              keyword_regions[k] = ContextWindow(NthMatch(k))

SomeSignalEmpty ==
    energy = <<>> \/ scene_changes = <<>> \/ keyword_regions = <<>>

\* C14: with one or more of the three signals empty the run still returns
\* candidates whenever a window fits in the total duration, and an empty
\* signal scores 0 on every window of the pool.
C14_DegradedSignalsScoreZero ==
    /\ (Terminated /\ pc # "returned_chapters" /\ SomeSignalEmpty
            /\ ~NoWindowFits) =>
          (pc = "returned" /\ Len(result) >= 1)
    /\ Scored =>
          \A i \in 1..Len(candidates) :
              /\ energy = <<>> => candidates[i].energy_score = RZero
              /\ keyword_regions = <<>> => candidates[i].kw_score = RZero
              /\ scene_changes = <<>> => candidates[i].scene_score = RZero
              /\ (energy = <<>> /\ keyword_regions = <<>>
                      /\ scene_changes = <<>>) => candidates[i].score = RZero

\* Both adapters failed on files that hold signals, and the keywords alone
\* carried the returned clip.
C14_Witness ==
    /\ pc = "returned"
    /\ audio # <<>> /\ energy = <<>>
    /\ video # <<>> /\ scene_changes = <<>>
    /\ keyword_regions # <<>>
    /\ RLt(RZero, result[1].score)

\* C18: the returned list is ordered by descending score, and refinement
\* keeps the order and the scores of the selected list.
C18_ReturnedByDescendingScore ==
    /\ Returned =>
          \A i, j \in 1..Len(result) :
              i < j => RLe(result[j].score, result[i].score)
    /\ pc = "returned" =>
          /\ Len(result) = Len(selected)
          /\ \A i \in 1..Len(result) : result[i].score = selected[i].score

\* A better clip that lies later in the video than the second one.
C18_Witness ==
    /\ pc = "returned"
    /\ Len(result) >= 2
    /\ RLt(result[2].score, result[1].score)
    /\ result[1].start > result[2].start

\* The keyword windows fully contained in pool candidate i.
ContainedRegions(i) ==
    {k \in 1..Len(keyword_regions) :
        /\ keyword_regions[k].ks >= candidates[i].start
        /\ keyword_regions[k].ke <= candidates[i].end}

\* The largest density among the keyword windows `ks`, 0 when there is none.
MaxDensity(ks) ==
    IF ks = {} THEN RZero
    ELSE LET densities == {keyword_regions[k].kd : k \in ks}
         IN  CHOOSE d \in densities : \A e \in densities : RLe(e, d)

PartlyInside(k, i) ==
    /\ k \notin ContainedRegions(i)
    /\ keyword_regions[k].ks < candidates[i].end
    /\ keyword_regions[k].ke > candidates[i].start

\* C19: the keyword score of every window is min(1, 3 * d), d being the
\* largest density among the keyword windows fully contained in it, or 0
\* when none is.
C19_KeywordScore ==
    Scored =>
        \A i \in 1..Len(candidates) :
            candidates[i].kw_score =
                RMin(ROne, RMul(Rat(3, 1), MaxDensity(ContainedRegions(i))))

\* One window scores 0 although a keyword window with keywords reaches into
\* it; another is clamped to 1 by a density below 1.
C19_Witness ==
    /\ Scored
    /\ \E i \in 1..Len(candidates) :
          /\ candidates[i].kw_score = RZero
          /\ \E k \in 1..Len(keyword_regions) :
                PartlyInside(k, i) /\ RLt(RZero, keyword_regions[k].kd)
    /\ \E i \in 1..Len(candidates) :
          /\ candidates[i].kw_score = ROne
          /\ RLt(MaxDensity(ContainedRegions(i)), ROne)

CutsInWindow(i) ==
    Cardinality({k \in 1..Len(scene_changes) :
                    /\ candidates[i].start <= scene_changes[k]
                    /\ scene_changes[k] < candidates[i].end})

\* C20: every pool candidate has scene score min(1, cuts / 2); its reason
\* holds "high energy" iff the energy score exceeds 0.6, "keyword" iff the
\* keyword score exceeds 0.3 and "scene change" iff the scene score exceeds
\* 0.5, and is "multi-signal" iff none of the three does.
C20_ReasonTags ==
    Scored =>
        \A i \in 1..Len(candidates) :
            LET c == candidates[i]
                loud == RLt(Rat(6, 10), c.energy_score)
                spoken == RLt(Rat(3, 10), c.kw_score)
                cut == RLt(Rat(5, 10), c.scene_score)
            IN  /\ c.scene_score = RMin(ROne, Rat(CutsInWindow(i), 2))
                /\ "high energy" \in Range(c.reason) <=> loud
                /\ "keyword" \in Range(c.reason) <=> spoken
                /\ "scene change" \in Range(c.reason) <=> cut
                /\ c.reason = <<"multi-signal">> <=> ~(loud \/ spoken \/ cut)

\* One window holds a single cut and nothing else of note, another is loud
\* and holds two cuts or more.
C20_Witness ==
    /\ Scored
    /\ \E i \in 1..Len(candidates) :
          /\ CutsInWindow(i) = 1
          /\ candidates[i].reason = <<"multi-signal">>
    /\ \E i \in 1..Len(candidates) :
          /\ CutsInWindow(i) >= 2
          /\ candidates[i].reason = <<"high energy", "scene change">>

Detecting(j) == jobs[j].pc = "detect"

\* C15: a configuration with min > max is rejected when it is constructed:
\* main does not start polling with one, and no handler has find_highlights
\* running with clip_min_duration > clip_max_duration.
C15_InvalidConfigRejected ==
    /\ app = "polling" =>
          bot_data["config"].clip_min_duration
              <= bot_data["config"].clip_max_duration
    /\ \A j \in 1..Len(jobs) :
          Detecting(j) =>
              jobs[j].effective_config[1].clip_min_duration
                  <= jobs[j].effective_config[1].clip_max_duration

Running(j) == jobs[j].pc \notin Over

Cached == "whisper_model" \in DOMAIN bot_data

\* At most one model was constructed, and every handle in the process is it.
OneModel ==
    /\ constructed <= 1
    /\ _whisper_model # <<>> => (constructed = 1 /\ _whisper_model = <<1>>)
    /\ Cached => bot_data["whisper_model"] = _whisper_model
    /\ Cached => _whisper_model # <<>>
    /\ \A j \in 1..Len(jobs) :
          Running(j) => (Cached /\ jobs[j].whisper_model = bot_data["whisper_model"])
    /\ constructed = 0 => (~Cached /\ _whisper_model = <<>>)

\* C16: over any interleaving of the two video handlers at most one Whisper
\* model is constructed, every running job holds that instance, a failed load
\* leaves both caches empty, and a cached handle is never replaced or dropped.
C16_SingleInitialization ==
    /\ []OneModel
    /\ [][Cached =>
            /\ "whisper_model" \in DOMAIN bot_data'
            /\ bot_data'["whisper_model"] = bot_data["whisper_model"]
            /\ _whisper_model' = _whisper_model]_vars

\* The first load failed, the second job loaded the model, and a job of the
\* other handler runs beside it with the same instance.
C16_Witness ==
    /\ Len(jobs) = 3
    /\ jobs[1].pc = "error"
    /\ Running(2) /\ Running(3)
    /\ jobs[2].kind # jobs[3].kind
    /\ jobs[2].whisper_model = jobs[3].whisper_model

\* The integer a command argument denotes, if any.
ArgumentValues ==
    {<< <<"-", "1">>, -1 >>, << <<"0">>, 0 >>, << <<"1">>, 1 >>,
     << <<"5">>, 5 >>, << <<"6">>, 6 >>, << <<"9">>, 9 >>,
     << <<"1", "0">>, 10 >>, << <<"2", "9">>, 29 >>, << <<"3", "0">>, 30 >>,
     << <<"3", "1">>, 31 >>, << <<"6", "0">>, 60 >>, << <<"6", "1">>, 61 >>}

\* The first argument is there and denotes an integer from low to high.
Accepted(args, low, high) ==
    /\ args # <<>>
    /\ \E v \in ArgumentValues :
          v[1] = args[1] /\ low <= v[2] /\ v[2] <= high

OverridesInRange ==
    /\ "max_clips" \in DOMAIN user_data => user_data["max_clips"] \in 1..5
    /\ "clip_min" \in DOMAIN user_data => user_data["clip_min"] \in 10..30
    /\ "clip_max" \in DOMAIN user_data => user_data["clip_max"] \in 30..60

\* C17: the stored overrides always satisfy max_clips in 1..5, clip_min in
\* 10..30 and clip_max in 30..60, and a /set_* command whose argument is
\* missing, not an integer or out of range leaves them as they were: a
\* command step that changes them has an argument of its range.
C17_OverridesStayInRange ==
    /\ []OverridesInRange
    /\ [][user_data' # user_data =>
            \A args \in CommandArgs :
                /\ CmdSetClipsWith(args) => Accepted(args, 1, 5)
                /\ CmdSetMinWith(args) => Accepted(args, 10, 30)
                /\ CmdSetMaxWith(args) => Accepted(args, 30, 60)]_vars

\* An override at the top of its range is stored, and the command after it
\* was turned down.
C17_Witness ==
    /\ last_reply = <<"set_max", "usage">>
    /\ "clip_min" \in DOMAIN user_data
    /\ user_data["clip_min"] = 30
    /\ updates.commands = 0

-----------------------------------------------------------------------------
(* Boundary refinement against the word list *)

Selecting == pc \in {"refine", "returned"}

EdgeDiff(k, edge, value) == Abs(words[k][edge] - value)

\* The edge of the earliest word, in list order, among those whose edge is
\* nearest to `value`, when that distance is within the tolerance; `value`
\* itself otherwise.
NearestEdge(edge, value) ==
    LET Near == {k \in 1..Len(words) : EdgeDiff(k, edge, value) <= SnapTolerance}
        Best == {k \in Near :
                    \A j \in Near :
                        /\ EdgeDiff(k, edge, value) <= EdgeDiff(j, edge, value)
                        /\ j < k => EdgeDiff(j, edge, value) > EdgeDiff(k, edge, value)}
    IN  IF Near = {} THEN value ELSE words[CHOOSE k \in Best : TRUE][edge]

\* C21: before the duration clamp, the start of every selected candidate is
\* moved to the start of the word nearest to it within 2 s (the earliest such
\* word on ties) or left alone when no word starts within 2 s, and its end
\* likewise with word ends.
C21_SnapsToNearestWord ==
    Selecting =>
        \A i \in 1..Len(selected) :
            /\ SnappedStart(selected[i]) = NearestEdge("start", selected[i].start)
            /\ SnappedEnd(selected[i]) = NearestEdge("end", selected[i].end)

-----------------------------------------------------------------------------
(* Run order of find_highlights *)

HeuristicStages ==
    {"gather", "score", "select", "refine", "returned", "NoHighlightsError"}

\* The steps from one position of the run to the next.
StageOrder ==
    {<<"chapters", "returned_chapters">>, <<"chapters", "gather">>,
     <<"gather", "score">>, <<"score", "select">>,
     <<"score", "NoHighlightsError">>, <<"select", "refine">>,
     <<"refine", "returned">>}

\* Nothing the adapters, the scorer, the selector or the refiner produce exists.
HeuristicUntouched ==
    /\ energy = <<>>
    /\ scene_changes = <<>>
    /\ keyword_regions = <<>>
    /\ video_duration = 0
    /\ candidates = <<>>
    /\ selected = <<>>

\* C22: the adapters, the scorer, the selector and the refiner run only when
\* fewer than max_clips chapters fit, one after the other in that order, each
\* writing only its own output; when the fast path returns, the run is over
\* and none of them has produced anything.
C22_RunOrder ==
    /\ [](pc = "returned_chapters" =>
             HeuristicUntouched /\ Cardinality(FittingChapters) >= max_clips)
    /\ [](pc \in HeuristicStages => Cardinality(FittingChapters) < max_clips)
    /\ [][/\ pc' # pc => <<pc, pc'>> \in StageOrder
          /\ <<energy, scene_changes, keyword_regions, video_duration>>'
                 # <<energy, scene_changes, keyword_regions, video_duration>>
                 => pc = "gather"
          /\ candidates' # candidates => pc = "score"
          /\ selected' # selected => pc = "select"
          /\ result' # result => pc \in {"chapters", "refine"}
          /\ pc = "refine" => candidates # <<>> /\ selected # <<>>]_vars

\* Chapters were given, too few of them fit, and the heuristic path returned.
C22_Witness ==
    /\ pc = "returned"
    /\ chapters # <<>>
    /\ FittingChapters # {}
    /\ result # <<>>

-----------------------------------------------------------------------------
(* The candidate pool *)

Pooled == pc \in {"select", "refine", "returned", "NoHighlightsError"}

\* Every window of one of the three sizes that starts on a step position and
\* ends within the duration.
AllWindows ==
    LET Sizes == {min_dur, (min_dur + max_dur) \div 2, max_dur}
        Positions == {WindowStep * k : k \in 0..(TotalDuration \div WindowStep)}
    IN  {w \in {<<pos, pos + size>> : pos \in Positions, size \in Sizes} :
            w[2] <= TotalDuration}

\* C23: the pool holds exactly the windows [pos, pos + size) with size one of
\* the three window sizes, pos a multiple of the step from 0 on and
\* pos + size <= totalDuration: none is left out, whatever it scores, and none
\* ends after totalDuration.
C23_PoolIsAllWindows ==
    Pooled =>
        /\ {<<candidates[i].start, candidates[i].end>> : i \in 1..Len(candidates)}
               = AllWindows
        /\ \A i \in 1..Len(candidates) : candidates[i].end <= TotalDuration

\* The pool holds a window that scores nothing next to one that scores, and a
\* step position from which the longest window no longer fits.
C23_Witness ==
    /\ pc = "select"
    /\ \E i, j \in 1..Len(candidates) :
          /\ candidates[i].score = RZero
          /\ RLt(RZero, candidates[j].score)
          /\ candidates[i].start > 0
    /\ \E i \in 1..Len(candidates) :
          /\ Duration(candidates[i]) = min_dur
          /\ candidates[i].start + max_dur > TotalDuration

-----------------------------------------------------------------------------
(* Score ranges *)

IsNumber(x) == x.d > 0

UnitInterval(x) == IsNumber(x) /\ RLe(RZero, x) /\ RLe(x, ROne)

NonNegativeWeights ==
    /\ RLe(RZero, config.audio_energy_weight)
    /\ RLe(RZero, config.keyword_weight)
    /\ RLe(RZero, config.scene_change_weight)

WeightSum ==
    RAdd(config.audio_energy_weight,
         RAdd(config.keyword_weight, config.scene_change_weight))

\* score = energyWeight * energy + keywordWeight * keyword + sceneWeight * scene
IsWeightedSum(c) ==
    LET e == RMul(config.audio_energy_weight, c.energy_score)
        k == RMul(config.keyword_weight, c.kw_score)
        v == RMul(config.scene_change_weight, c.scene_score)
    IN  c.score.n * (e.d * k.d * v.d)
            = (e.n * k.d * v.d + k.n * e.d * v.d + v.n * e.d * k.d) * c.score.d

\* C24: with non-negative weights, every pool candidate has an energy, a
\* keyword and a scene score between 0 and 1, its score is the weighted sum of
\* the three, and so lies between 0 and the sum of the weights.
C24_ScoresInRange ==
    (Pooled /\ NonNegativeWeights) =>
        \A i \in 1..Len(candidates) :
            /\ UnitInterval(candidates[i].energy_score)
            /\ UnitInterval(candidates[i].kw_score)
            /\ UnitInterval(candidates[i].scene_score)
            /\ IsNumber(candidates[i].score)
            /\ IsWeightedSum(candidates[i])
            /\ RLe(RZero, candidates[i].score)
            /\ RLe(candidates[i].score, WeightSum)

\* The weights do not sum to 1, and a window in which all three signals fire
\* scores more than 1.
C24_Witness ==
    /\ pc = "select"
    /\ RLt(ROne, WeightSum)
    /\ \E i \in 1..Len(candidates) :
          /\ RLt(RZero, candidates[i].energy_score)
          /\ RLt(candidates[i].energy_score, ROne)
          /\ RLt(RZero, candidates[i].kw_score)
          /\ RLt(RZero, candidates[i].scene_score)
          /\ RLt(ROne, candidates[i].score)

-----------------------------------------------------------------------------
(* What refinement keeps *)

\* C25: each returned candidate carries the score and the reason of the
\* selected candidate it was refined from, the selected candidates themselves
\* are still the pool candidates the selector picked, and with no words the
\* returned candidate is the selected one, start and end included.
C25_RefineKeepsScoreAndReason ==
    /\ [](pc = "returned" =>
             /\ Len(result) = Len(selected)
             /\ \A i \in 1..Len(result) :
                   /\ result[i].score = selected[i].score
                   /\ result[i].reason = selected[i].reason
                   /\ words = <<>> => result[i] = selected[i]
                   /\ \E j \in 1..Len(candidates) :
                         selected[i] = AsCandidate(candidates[j]))
    /\ [][pc = "refine" => selected' = selected]_vars

\* A tagged candidate with a score came back with both edges moved.
C25_Witness ==
    /\ pc = "returned"
    /\ \E i \in 1..Len(result) :
          /\ result[i].start # selected[i].start
          /\ result[i].end # selected[i].end
          /\ result[i].reason # <<"multi-signal">>
          /\ RLt(RZero, result[i].score)

-----------------------------------------------------------------------------
(* How far refinement moves an edge *)

\* C26: a selected candidate that lasts between min and max seconds comes
\* back with its start at most 2 s from the selected start and its end at
\* most 2 s from the selected end, duration clamp included.
C26_RefinedWithinTolerance ==
    pc = "returned" =>
        \A i \in 1..Len(result) :
            InDurationBounds(selected[i], min_dur, max_dur) =>
                /\ Abs(result[i].start - selected[i].start) <= SnapTolerance
                /\ Abs(result[i].end - selected[i].end) <= SnapTolerance

-----------------------------------------------------------------------------
(* Returned clips and the scanned timeline *)

\* C27 as stated: every clip returned on the heuristic path has
\* 0 <= start < end <= totalDuration.
C27_InsideTimeline ==
    pc = "returned" =>
        \A i \in 1..Len(result) :
            /\ 0 <= result[i].start
            /\ result[i].start < result[i].end
            /\ result[i].end <= TotalDuration

\* C27 amended: every clip returned on the heuristic path has
\* 0 <= start < end and start <= totalDuration; its end is at most
\* totalDuration unless the clip lasts exactly min seconds, the case in which
\* the minimum-duration clamp may have put the end at start + min, after the
\* last word.
C27_InsideTimelineUnlessExtended ==
    pc = "returned" =>
        \A i \in 1..Len(result) :
            /\ 0 <= result[i].start
            /\ result[i].start < result[i].end
            /\ result[i].start <= TotalDuration
            /\ \/ result[i].end <= TotalDuration
               \/ Duration(result[i]) = min_dur

\* The start was snapped forward, the clip became too short, and the clamp
\* put its end after the last word.
C27_Witness ==
    /\ pc = "returned"
    /\ min_dur < max_dur
    /\ \E i \in 1..Len(result) :
          /\ result[i].start > selected[i].start
          /\ result[i].end > TotalDuration
          /\ SnappedEnd(selected[i]) - SnappedStart(selected[i]) < min_dur

-----------------------------------------------------------------------------
(* The job directory *)

Removed(j) == j \in DOMAIN temp_dirs /\ temp_dirs[j] = "removed"

\* A job directory exists only while its handler is inside the with block.
DirOnlyWhileRunning ==
    \A j \in DOMAIN temp_dirs :
        /\ j \in 1..Len(jobs)
        /\ temp_dirs[j] = "made" => jobs[j].pc \notin Over
        /\ jobs[j].pc \in Over => temp_dirs[j] = "removed"

\* C28: the directory made for a job is removed in the very step in which the
\* job's handler leaves its last stage, not before and whatever the way out
\* (clips sent, early return, an exception of any kind), it is not made
\* again, and every directory made is eventually removed.
C28_TempDirRemoved ==
    /\ []DirOnlyWhileRunning
    /\ [][\A j \in DOMAIN temp_dirs :
             /\ temp_dirs[j] = "removed" => temp_dirs'[j] = "removed"
             /\ (temp_dirs[j] = "made" /\ temp_dirs'[j] = "removed") =>
                    (jobs[j].pc \notin Over /\ jobs'[j].pc \in Over)
             /\ (jobs[j].pc \notin Over /\ jobs'[j].pc \in Over) =>
                    temp_dirs'[j] = "removed"]_vars
    /\ \A j \in 1..MaxFairJobs : InTempDir(j) ~> Removed(j)

\* One job failed and its directory is gone while another job, in its own
\* directory, is delivering clips.
C28_Witness ==
    \E j, k \in 1..Len(jobs) :
        /\ jobs[j].pc = "failed"
        /\ Removed(j)
        /\ jobs[k].pc = "send"
        /\ InTempDir(k)
        /\ Delivered(k) > 0

-----------------------------------------------------------------------------
(* The stages of one job *)

Stages == <<{"download", "receive"}, {"transcribe"}, {"detect"}, {"clips"}, {"send"}>>

StageRank(stage) == CHOOSE r \in 1..Len(Stages) : stage \in Stages[r]

\* Job j moves on in this step.
MovesOn(j) == jobs'[j].pc # jobs[j].pc

\* C29: a job goes through download or receive, transcribe, detect, create
\* clips and send in this order, entering a stage only from the one before
\* it; a job whose handler is over, for an exception or otherwise, runs no
\* further stage and delivers no further clip; clips are delivered in the
\* send stage only, so a job in which an earlier stage raised delivers none.
C29_StagesInOrder ==
    /\ [](\A j \in 1..Len(jobs) :
             (jobs[j].pc \notin Over /\ jobs[j].pc # "send") => Delivered(j) = 0)
    /\ [][\A j \in 1..Len(jobs) :
             /\ (MovesOn(j) /\ jobs'[j].pc \notin Over) =>
                    /\ jobs[j].pc \notin Over
                    /\ StageRank(jobs'[j].pc) = StageRank(jobs[j].pc) + 1
             /\ jobs[j].pc \in Over =>
                    jobs'[j] = jobs[j] /\ Delivered(j)' = Delivered(j)
             /\ Delivered(j)' # Delivered(j) =>
                    jobs[j].pc = "send" /\ jobs'[j].pc \in {"send", "sent"}
             /\ jobs'[j].pc = "sent" =>
                    jobs[j].pc \in {"send", "sent"} /\ Delivered(j)' > 0
             /\ (jobs[j].pc \notin {"send", "failed"} /\ jobs'[j].pc = "failed") =>
                    Delivered(j)' = 0]_vars

\* One job went through every stage and delivered its clips; another one
\* raised after its directory was made and delivered nothing.
C29_Witness ==
    \E j, k \in 1..Len(jobs) :
        /\ jobs[j].pc = "sent"
        /\ Delivered(j) = MaxDelivered
        /\ jobs[k].pc = "failed"
        /\ Removed(k)
        /\ Delivered(k) = 0

-----------------------------------------------------------------------------
(* The effective configuration *)

DefaultBase ==
    /\ "config" \in DOMAIN bot_data
    /\ bot_data["config"].clip_min_duration = DefaultClipMin
    /\ bot_data["config"].clip_max_duration = DefaultClipMax

ValidDurations(cfg) ==
    0 < cfg.clip_min_duration /\ cfg.clip_min_duration <= cfg.clip_max_duration

\* C30: on the default base configuration (15 and 60 seconds), whatever
\* /set_min and /set_max commands have been handled, the configuration
\* _get_user_config merges, and the one every job was started with, has
\* 0 < clip_min_duration <= clip_max_duration.
C30_EffectiveDurationsValid ==
    DefaultBase =>
        /\ ValidDurations(_get_user_config(user_data, bot_data["config"]))
        /\ \A j \in 1..Len(jobs) :
              jobs[j].effective_config # <<>> =>
                  ValidDurations(jobs[j].effective_config[1])

\* /set_min 30 and /set_max 30 were both accepted and a job runs with the
\* two bounds equal.
C30_Witness ==
    /\ DefaultBase
    /\ "clip_min" \in DOMAIN user_data
    /\ "clip_max" \in DOMAIN user_data
    /\ user_data["clip_min"] = ClipMinHigh
    /\ user_data["clip_max"] = ClipMaxLow
    /\ \E j \in 1..Len(jobs) :
          /\ jobs[j].effective_config # <<>>
          /\ jobs[j].effective_config[1].clip_min_duration = ClipMinHigh
          /\ jobs[j].effective_config[1].clip_max_duration = ClipMaxLow

=============================================================================
